---- MODULE Spec2Model ----
(***************************************************************************)
(* Competitor-tracking agent: main (main.py) with its polling loop, and    *)
(* the weekly pipeline it runs,                                            *)
(*   collect_updates -> filter_recent_updates -> generate_summary          *)
(*   -> send_notifications, wrapped by run_weekly_analysis,                *)
(* with the dates of WebScraper / RSSParser (scrapers.py), GeminiAnalyzer  *)
(* (ai_analyzer.py) and SlackNotifier / NotionUpdater (integrations.py).   *)
(*                                                                         *)
(* Text is modelled by what the code looks at.  The text sent to the       *)
(* analyzer is a sequence of lines, each line named by its prefix          *)
(* ("Source:", "Date:", "Title:", "Content:", "---", or "other").  A model *)
(* response is a sequence of tokens: white space ("ws", "pad", "nl"),      *)
(* "fence" (three backquotes), "json" (the language tag right after a      *)
(* fence), runs of prose told apart by their length and by whether they    *)
(* mention an update or a competitor ("prose", "mention", "ramble",        *)
(* "report", "essay"), and the names of JSON documents (the fields of      *)
(* DocTable).                                                              *)
(*                                                                         *)
(* An exception is a value: an operator that models code which can raise   *)
(* returns a record whose `raises` field names the exception.              *)
(*                                                                         *)
(* Assumption: the modules import.  integrations.py annotates              *)
(* _format_blocks with List without importing it, which raises NameError   *)
(* at import wherever annotations are evaluated eagerly; the model         *)
(* describes the program where they are evaluated lazily.                  *)
(***************************************************************************)
EXTENDS Integers, Sequences, FiniteSets, TLC

VARIABLES
    pc,              \* position of the run
    sources,         \* CompetitorAgent.sources
    srcIdx,          \* collect_updates: index of the next source of the loop
    all_updates,     \* collect_updates: all_updates
    collectLog,      \* history: per visited source, what its collector did
    days,            \* filter_recent_updates: the window in days
    recent_updates,  \* run_weekly_analysis: recent_updates
    updates_text,    \* generate_summary: updates_text (a sequence of lines)
    attempt,         \* analyze_updates: loop variable
    analysisLog,     \* history: outcome of every analyzer attempt
    lastResponse,    \* history: response.text of the last model call
    summary,         \* the summary dict
    sender,          \* send_message / update_page: the call in progress
    slack,           \* history of the chat notifier
    notion,          \* history of the document notifier
    sleeps,          \* history: every time.sleep(seconds), in order
    run,             \* run_weekly_analysis: raised stage, alerts, outcome
    proc             \* main: position, environment, argv, counters of the loop

vars == <<pc, sources, srcIdx, all_updates, collectLog, days, recent_updates,
          updates_text, attempt, analysisLog, lastResponse, summary, sender,
          slack, notion, sleeps, run, proc>>

(***************************************************************************)
(* Bounds of the model.                                                    *)
(***************************************************************************)
MaxSources == 2
MaxPerSource == 1
MaxUpdates == 2
MaxRetry == 5
MaxPolls == 2

(***************************************************************************)
(* Program constants.                                                      *)
(***************************************************************************)
DefaultDays == 7
AnalyzerRetryCount == 3
NotifierRetryCount == 3
RateLimitSeconds == 1
PollSeconds == 60
SalvageLines == 10
LongLine == 50
SummaryLimit == 300

RECURSIVE Pow2(_)
Pow2(n) == IF n = 0 THEN 1 ELSE 2 * Pow2(n - 1)

RECURSIVE Flatten(_)
Flatten(ss) == IF ss = <<>> THEN <<>> ELSE Head(ss) \o Flatten(Tail(ss))

SeqsUpTo(S, n) == UNION {[1..k -> S] : k \in 0..n}

(***************************************************************************)
(* Sources and updates.                                                    *)
(***************************************************************************)
SourceNames == {"Acme", "Beta"}
KnownTypes == {"website", "rss", "twitter", "linkedin"}
SourceTypes == KnownTypes \cup {"forum"}
Source == [name : SourceNames, type : SourceTypes]

\* The 'date' of an update: an ISO-8601 string without an offset ("naive")
\* or with one ("aware"), `age` whole days before now; a string that is
\* not ISO-8601 ("bad", such as "1/5/2024"); or no 'date' key ("missing").
DateValue ==
    [kind : {"naive"}, age : {1, 3, 7, 8}]
        \cup [kind : {"aware"}, age : {1, 8}]
        \cup [kind : {"bad", "missing"}, age : {0}]

\* A title or a content is a non-empty sequence of lines.
PlainText == <<"other">>
SourceText == <<"other", "Source:">>
TextValue == {PlainText, SourceText}

\* What a collector returns for one entry.
RawUpdate == [date : DateValue, title : TextValue, content : TextValue]
NoTag == "-"
Untagged(date, title, content) ==
    [date |-> date, title |-> title, content |-> content,
     source |-> NoTag, source_type |-> NoTag]

(***************************************************************************)
(* collect_updates (main.py).  One action per iteration of the loop over   *)
(* self.sources.  The collector of a source is the environment: it returns *)
(* a list of updates or raises inside the iteration's try block.           *)
(***************************************************************************)
Returned(us) == [outcome |-> "returned", updates |-> us]
Raised == [outcome |-> "raised", updates |-> <<>>]
Skipped == [outcome |-> "unknown", updates |-> <<>>]

\* What the dispatch on source.type can do: scrape_website and parse_feed
\* return up to MaxPerSource entries of U, parse_social is a stub that
\* returns []; an unknown type is logged and skipped.
CollectorOutcomes(type, U) ==
    CASE type \in {"website", "rss"} ->
            {Returned(us) : us \in SeqsUpTo(U, MaxPerSource)} \cup {Raised}
      [] type \in {"twitter", "linkedin"} -> {Returned(<<>>), Raised}
      [] OTHER -> {Skipped}

\* update['source'] = source.name; update['source_type'] = source.type
TagUpdates(updates, source) ==
    [i \in 1..Len(updates) |->
        [updates[i] EXCEPT !.source = source.name,
                           !.source_type = source.type]]

\* The state after one iteration of the loop whose collector did `out`.
CollectStep_StopOnFailure(out) ==
    LET source == sources[srcIdx] IN
    /\ collectLog' = Append(collectLog, [index |-> srcIdx, outcome |-> out.outcome,
                                           updates |-> out.updates])
    /\ IF out.outcome = "returned"
          THEN /\ all_updates' = all_updates \o TagUpdates(out.updates, source)
               /\ sleeps' = Append(sleeps, [by |-> "collect", secs |-> RateLimitSeconds])
               /\ srcIdx' = srcIdx + 1
          ELSE /\ UNCHANGED <<all_updates, sleeps>>
               /\ srcIdx' = Len(sources) + 1

CollectStep(out) ==
    LET source == sources[srcIdx] IN
    /\ collectLog' = Append(collectLog, [index |-> srcIdx, outcome |-> out.outcome,
                                           updates |-> out.updates])
    /\ srcIdx' = srcIdx + 1
    /\ IF out.outcome = "returned"
          THEN /\ all_updates' = all_updates \o TagUpdates(out.updates, source)
               /\ sleeps' = Append(sleeps, [by |-> "collect", secs |-> RateLimitSeconds])
          ELSE \* continue, or the except clause: no update, no sleep
               UNCHANGED <<all_updates, sleeps>>

CollectSource(U) ==
    /\ pc = "collect"
    /\ srcIdx <= Len(sources)
    /\ \E out \in CollectorOutcomes(sources[srcIdx].type, U) : CollectStep(out)
    /\ UNCHANGED <<proc, pc, sources, days, recent_updates, updates_text, attempt,
                   analysisLog, lastResponse, summary, sender, slack, notion, run>>

CollectReturn ==
    /\ pc = "collect"
    /\ srcIdx > Len(sources)
    /\ pc' = "filter"
    /\ UNCHANGED <<proc, sources, srcIdx, all_updates, collectLog, days, recent_updates,
                   updates_text, attempt, analysisLog, lastResponse, summary,
                   sender, slack, notion, sleeps, run>>

(***************************************************************************)
(* filter_recent_updates (main.py).                                        *)
(***************************************************************************)
\* datetime.fromisoformat(update.get('date', '')): ValueError unless the
\* string is ISO-8601 ('' when the key is missing).
FromIsoformat(date) ==
    IF date.kind \in {"naive", "aware"}
      THEN [raises |-> "none", aware |-> date.kind = "aware", age |-> date.age]
      ELSE [raises |-> "ValueError", aware |-> FALSE, age |-> 0]

\* update_date > cutoff_date, cutoff_date = datetime.now() - timedelta(days):
\* comparing an offset-aware datetime with the offset-naive cutoff raises
\* TypeError.
LaterThanCutoff(d, window) ==
    IF d.aware
      THEN [raises |-> "TypeError", value |-> FALSE]
      ELSE [raises |-> "none", value |-> d.age < window]

\* Whether the loop body appends `update` to recent_updates.
KeepsUpdate(update, window) ==
    LET d == FromIsoformat(update.date) IN
    IF d.raises # "none"
      THEN TRUE                     \* except (ValueError, TypeError): append
      ELSE LET c == LaterThanCutoff(d, window) IN
           IF c.raises # "none" THEN TRUE ELSE c.value

filter_recent_updates(updates, window) ==
    SelectSeq(updates, LAMBDA u : KeepsUpdate(u, window))

FilterRecent(window) ==
    /\ pc = "filter"
    /\ days' = window
    /\ recent_updates' = filter_recent_updates(all_updates, window)
    /\ pc' = "summarize"
    /\ UNCHANGED <<proc, sources, srcIdx, all_updates, collectLog, updates_text, attempt,
                   analysisLog, lastResponse, summary, sender, slack, notion,
                   sleeps, run>>

(***************************************************************************)
(* The dates of the collectors (scrapers.py): WebScraper._extract_date for *)
(* the date element of a container, RSSParser._parse_entry_date for an     *)
(* entry of a feed.  datetime.now().isoformat() is the naive date of age   *)
(* 0.                                                                      *)
(*   attr   the datetime attribute of the element: "none", an ISO-8601     *)
(*          string without offset ("naive") or with one ("aware"), or a    *)
(*          string that fromisoformat rejects ("malformed")                *)
(*   text   the text of the element: holds a date written 2024-01-05       *)
(*          ("iso"), digits of that shape that are no date, 2024-13-45     *)
(*          ("digits"), 1/5/2024 ("slash"), January 5, 2024 ("long"), or   *)
(*          no date ("none")                                               *)
(***************************************************************************)
Now == [kind |-> "naive", age |-> 0]
NotIso == [kind |-> "bad", age |-> 0]

DateElem ==
    [found : {TRUE}, attr : {"none", "naive", "aware", "malformed"},
     text : {"iso", "digits", "slash", "long", "none"}, age : {1, 8}]
NoDateElem == [found |-> FALSE, attr |-> "none", text |-> "none", age |-> 0]

\* _extract_date: the first pattern that matches returns match.group(1),
\* the text as it was written.
extract_date(date_elem) ==
    CASE date_elem.attr = "malformed" -> Now      \* ValueError -> except
      [] date_elem.attr \in {"naive", "aware"} ->
            [kind |-> date_elem.attr, age |-> date_elem.age]
      [] date_elem.text = "iso" -> [kind |-> "naive", age |-> date_elem.age]
      [] date_elem.text \in {"digits", "slash", "long"} -> NotIso
      [] OTHER -> Now

\* _extract_update_data, line 70
container_date(date_elem) ==
    IF date_elem.found THEN extract_date(date_elem) ELSE Now

\* An entry of a feed: which of published_parsed / updated_parsed holds a
\* time tuple ("tuple"), a value datetime(...) rejects ("invalid"), or
\* none of them does ("none").
FeedEntry == [parsed : {"tuple", "invalid", "none"}, age : {1, 8}]

\* _parse_entry_date
parse_entry_date(entry) ==
    IF entry.parsed = "tuple" THEN [kind |-> "naive", age |-> entry.age] ELSE Now

\* One container of scrape_website, one entry of parse_feed: the update
\* it adds, as collect_updates tags it.
CollectedUpdate(date, type) ==
    [date |-> date, title |-> PlainText, content |-> PlainText,
     source |-> "Acme", source_type |-> type]

ScrapeContainer ==
    /\ pc = "scrape"
    /\ Len(all_updates) < MaxUpdates
    /\ \E e \in DateElem \cup {NoDateElem} :
          all_updates' = Append(all_updates, CollectedUpdate(container_date(e), "website"))
    /\ UNCHANGED <<proc, pc, sources, srcIdx, collectLog, days, recent_updates,
                   updates_text, attempt, analysisLog, lastResponse, summary,
                   sender, slack, notion, sleeps, run>>

ParseEntry ==
    /\ pc = "scrape"
    /\ Len(all_updates) < MaxUpdates
    /\ \E e \in FeedEntry :
          all_updates' = Append(all_updates, CollectedUpdate(parse_entry_date(e), "rss"))
    /\ UNCHANGED <<proc, pc, sources, srcIdx, collectLog, days, recent_updates,
                   updates_text, attempt, analysisLog, lastResponse, summary,
                   sender, slack, notion, sleeps, run>>

\* collect_updates returns what the collectors gave it.
ScrapeReturn ==
    /\ pc = "scrape"
    /\ pc' = "filter"
    /\ UNCHANGED <<proc, sources, srcIdx, all_updates, collectLog, days, recent_updates,
                   updates_text, attempt, analysisLog, lastResponse, summary,
                   sender, slack, notion, sleeps, run>>

(***************************************************************************)
(* JSON documents: what json.loads returns for a document token.           *)
(*   top        the type of the document                                   *)
(*   keys       for a dict its keys, for a list its string elements, for a *)
(*              str the key names that occur in it (Python's `in`)         *)
(*   categories the value under 'categories': its type, and per category   *)
(*              key "absent", "empty" ([]), "items" (a non-empty list of   *)
(*              strings), "number" (a non-zero number) or, in a list or a  *)
(*              str, "member"                                              *)
(***************************************************************************)
CatKeys == {"new_features", "pricing_changes", "messaging_updates"}
RequiredKeys == <<"summary", "categories", "key_insights">>
RequiredSet == {RequiredKeys[i] : i \in 1..Len(RequiredKeys)}

Cats(kind, nf, pr, mu) ==
    [kind |-> kind,
     vals |-> [k \in CatKeys |->
                 CASE k = "new_features" -> nf
                   [] k = "pricing_changes" -> pr
                   [] OTHER -> mu]]
EmptyCats == Cats("dict", "empty", "empty", "empty")

Doc(top, keys, cats, threat, total) ==
    [top |-> top, keys |-> keys, categories |-> cats, threat_level |-> threat,
     total_updates |-> total]

DocTable ==
    [doc_good    |-> Doc("dict", RequiredSet, Cats("dict", "items", "empty", "items"),
                         "medium", 0),
     doc_sparse  |-> Doc("dict", RequiredSet, Cats("dict", "items", "absent", "absent"),
                         "medium", 0),
     doc_nocats  |-> Doc("dict", RequiredSet, Cats("dict", "absent", "absent", "absent"),
                         "medium", 0),
     doc_full    |-> Doc("dict",
                         RequiredSet \cup {"threat_level", "recommended_actions",
                                           "total_updates"},
                         Cats("dict", "items", "items", "items"), "high", 99),
     doc_nokey   |-> Doc("dict", {"summary", "categories"},
                         Cats("dict", "items", "empty", "empty"), "medium", 0),
     doc_catnum  |-> Doc("dict", RequiredSet, Cats("dict", "number", "empty", "empty"),
                         "medium", 0),
     doc_catnull |-> Doc("dict", RequiredSet, Cats("null", "absent", "absent", "absent"),
                         "medium", 0),
     doc_catlist |-> Doc("dict", RequiredSet, Cats("list", "member", "member", "member"),
                         "medium", 0),
     doc_catone  |-> Doc("dict", RequiredSet, Cats("list", "member", "absent", "absent"),
                         "medium", 0),
     doc_list    |-> Doc("list", RequiredSet, Cats("null", "absent", "absent", "absent"),
                         "medium", 0),
     doc_threat  |-> Doc("dict", RequiredSet \cup {"threat_level"},
                         Cats("dict", "items", "empty", "items"), "critical", 0)]
DocNames == DOMAIN DocTable

(***************************************************************************)
(* The summary dict.  `path` is history: which code path built it.  `keys` *)
(* are its top-level keys; a field whose key is absent holds a filler.     *)
(***************************************************************************)
NoSummary ==
    [path |-> "none", keys |-> {}, summary |-> [form |-> "none", count |-> 0],
     categories |-> Cats("null", "absent", "absent", "absent"),
     key_insights |-> "absent", threat_level |-> "absent",
     recommended_actions |-> "absent", total_updates |-> 0]

\* generate_summary: the canned summary of an empty update list
CannedSummary ==
    [NoSummary EXCEPT !.path = "canned",
                      !.keys = {"summary", "categories", "total_updates"},
                      !.summary = [form |-> "no_updates", count |-> 0],
                      !.categories = EmptyCats,
                      !.total_updates = 0]

(***************************************************************************)
(* GeminiAnalyzer._parse_analysis_response and its helpers.                *)
(***************************************************************************)
\* Whitespace tokens: "ws" one blank, "pad" a run of 60 blanks, "nl" a
\* newline.
Whitespace == {"ws", "pad", "nl"}

RECURSIVE LStrip(_)
LStrip(t) == IF t # <<>> /\ Head(t) \in Whitespace THEN LStrip(Tail(t)) ELSE t

RECURSIVE RStrip(_)
RStrip(t) ==
    IF t # <<>> /\ t[Len(t)] \in Whitespace
      THEN RStrip(SubSeq(t, 1, Len(t) - 1)) ELSE t

\* str.strip()
Strip(t) == RStrip(LStrip(t))

\* cleaned_text.startswith(fence + 'json')
StartsWithJsonFence(t) == Len(t) >= 2 /\ t[1] = "fence" /\ t[2] = "json"

\* cleaned_text.endswith(fence)
EndsWithFence(t) == t # <<>> /\ t[Len(t)] = "fence"

\* Lines 94-98: the text handed to json.loads (before its own strip()).
CleanResponse(response_text) ==
    LET s == Strip(response_text)
        a == IF StartsWithJsonFence(s) THEN SubSeq(s, 3, Len(s)) ELSE s   \* [7:]
    IN IF EndsWithFence(a) THEN SubSeq(a, 1, Len(a) - 1) ELSE a           \* [:-3]

\* json.loads: the text must be exactly one JSON document.
JsonLoads(t) ==
    IF Len(t) = 1 /\ t[1] \in DocNames
      THEN [raises |-> "none", doc |-> DocTable[t[1]]]
      ELSE [raises |-> "JSONDecodeError", doc |-> DocTable.doc_good]

\* Lines 104-107: `key not in analysis` for the required keys, in order.
RequiredKeysCheck(doc) ==
    CASE doc.top \notin {"dict", "list", "str"} -> "TypeError"
      [] \E i \in 1..Len(RequiredKeys) : RequiredKeys[i] \notin doc.keys -> "ValueError"
      [] OTHER -> "none"

\* Lines 110-114: back-fill of the category sub-lists.
FillCategories(doc) ==
    LET c == doc.categories
        missing == {k \in CatKeys : c.vals[k] = "absent"}
    IN CASE doc.top # "dict" ->                 \* analysis['categories']
              [raises |-> "TypeError", categories |-> c]
         [] c.kind \notin {"dict", "list", "str"} ->  \* cat_key not in categories
              [raises |-> "TypeError", categories |-> c]
         [] c.kind # "dict" /\ missing # {} ->  \* categories[cat_key] = []
              [raises |-> "TypeError", categories |-> c]
         [] OTHER ->
              [raises |-> "none",
               categories |-> [c EXCEPT !.vals =
                                 [k \in CatKeys |-> IF k \in missing THEN "empty"
                                                    ELSE c.vals[k]]]]

\* What a token of text is to _extract_summary_fallback: its length in
\* characters and whether it holds 'update' or 'competitor' in any case.
\* "prose" is 20 characters without the words, "mention" 30 with one of
\* them, "ramble" 80 without, "report" 60 with, "essay" 400 with.  A
\* document token is the compact one-line text of the document: 49
\* characters when it has the three required keys and an empty categories
\* object, above 50 as soon as a category key is written out; it holds
\* 'update' in the key messaging_updates or total_updates.
DocChars(d) ==
    IF \E k \in CatKeys : DocTable[d].categories.vals[k] # "absent" THEN 60
    ELSE IF DocTable[d].top = "dict" THEN 49 ELSE 40
DocMentions(d) ==
    \/ DocTable[d].categories.vals["messaging_updates"] # "absent"
    \/ "total_updates" \in DocTable[d].keys

TokenChars(tok) ==
    CASE tok \in DocNames -> DocChars(tok)
      [] tok = "ws" -> 1
      [] tok = "nl" -> 1
      [] tok = "pad" -> 60
      [] tok = "fence" -> 3
      [] tok = "json" -> 4
      [] tok = "prose" -> 20
      [] tok = "mention" -> 30
      [] tok = "ramble" -> 80
      [] tok = "report" -> 60
      [] tok = "essay" -> 400
      [] OTHER -> 1
TokenMentions(tok) ==
    IF tok \in DocNames THEN DocMentions(tok) ELSE tok \in {"mention", "report", "essay"}

\* text.split('\n')
RECURSIVE SplitLines(_)
SplitLines(t) ==
    IF \A i \in 1..Len(t) : t[i] # "nl"
      THEN <<t>>
      ELSE LET i == CHOOSE j \in 1..Len(t) :
                        t[j] = "nl" /\ \A h \in 1..(j - 1) : t[h] # "nl"
           IN <<SubSeq(t, 1, i - 1)>> \o SplitLines(SubSeq(t, i + 1, Len(t)))

\* len(line)
RECURSIVE LineChars(_)
LineChars(line) ==
    IF line = <<>> THEN 0 ELSE TokenChars(Head(line)) + LineChars(Tail(line))

\* 'update' in line.lower() or 'competitor' in line.lower()
LineMentions(line) == \E i \in 1..Len(line) : TokenMentions(line[i])

\* The loop of _extract_summary_fallback over lines[:limit].  `line` is
\* history: the number of the line that was taken.
SalvageLine(text, limit) ==
    LET lines == SplitLines(text)
        n == IF Len(lines) < limit THEN Len(lines) ELSE limit
        hits == {i \in 1..n : /\ LineChars(Strip(lines[i])) > LongLine
                              /\ LineMentions(Strip(lines[i]))}
    IN IF hits = {}
         THEN [form |-> "placeholder", count |-> 0]
         ELSE LET i == CHOOSE h \in hits : \A j \in hits : h <= j
                  c == LineChars(Strip(lines[i]))
              IN [form |-> "salvaged", count |-> 0, line |-> i,
                  chars |-> IF c < SummaryLimit THEN c ELSE SummaryLimit]   \* [:300]

\* A search through every line of the text.
extract_summary_fallback_AllLines(text) == SalvageLine(text, Len(text) + 1)

\* _extract_summary_fallback: the first of the first 10 lines that,
\* stripped, is longer than 50 characters and mentions an update or a
\* competitor, cut to 300 characters; else the fixed placeholder.
extract_summary_fallback(text) == SalvageLine(text, SalvageLines)

\* _extract_partial_analysis
extract_partial_analysis(response_text) ==
    [NoSummary EXCEPT !.path = "partial",
                      !.keys = RequiredSet \cup {"threat_level", "recommended_actions"},
                      !.summary = extract_summary_fallback(response_text),
                      !.categories = EmptyCats,
                      !.key_insights = "empty",
                      !.threat_level = "medium",
                      !.recommended_actions = "empty"]

\* The dict returned at line 120 for a validated document.
ParsedAnalysis(doc, cats) ==
    [path |-> "parsed",
     keys |-> doc.keys \cup {"threat_level", "recommended_actions"},
     summary |-> [form |-> "model", count |-> 0],
     categories |-> cats,
     key_insights |-> "model",
     threat_level |-> IF "threat_level" \in doc.keys THEN doc.threat_level ELSE "medium",
     recommended_actions |-> IF "recommended_actions" \in doc.keys THEN "model" ELSE "empty",
     total_updates |-> IF "total_updates" \in doc.keys THEN doc.total_updates ELSE 0]

parse_analysis_response(response_text) ==
    LET loaded == JsonLoads(Strip(CleanResponse(response_text)))
        doc == loaded.doc
        fill == FillCategories(doc)
    IN CASE loaded.raises # "none" ->
              [raises |-> "none", analysis |-> extract_partial_analysis(response_text)]
         [] RequiredKeysCheck(doc) # "none" ->
              [raises |-> RequiredKeysCheck(doc), analysis |-> NoSummary]
         [] fill.raises # "none" ->
              [raises |-> fill.raises, analysis |-> NoSummary]
         [] OTHER ->
              [raises |-> "none", analysis |-> ParsedAnalysis(doc, fill.categories)]

(***************************************************************************)
(* generate_summary and analyze_updates.                                   *)
(***************************************************************************)
\* f"Source: {source}\nDate: {date}\nTitle: {title}\nContent: {content}\n---":
\* the first line of a title or content follows its label on the same line,
\* its other lines are lines of their own.
FormatUpdate(update) ==
    <<"Source:", "Date:", "Title:">> \o Tail(update.title)
        \o <<"Content:">> \o Tail(update.content) \o <<"---">>

\* _format_updates_for_analysis: '\n'.join(formatted), as its lines
format_updates_for_analysis(updates) ==
    Flatten([i \in 1..Len(updates) |-> FormatUpdate(updates[i])])

\* len([line for line in lines if line.startswith('Source:')])
CountSourceLines_Dividers(lines) == Len(SelectSeq(lines, LAMBDA l : l = "---"))

CountSourceLines(lines) == Len(SelectSeq(lines, LAMBDA l : l = "Source:"))

\* _get_fallback_analysis
get_fallback_analysis(text) ==
    [path |-> "fallback",
     keys |-> RequiredSet \cup {"threat_level", "recommended_actions"},
     summary |-> [form |-> "collected_n_manual_review", count |-> CountSourceLines(text)],
     categories |-> EmptyCats,
     key_insights |-> "manual_review",
     threat_level |-> "medium",
     recommended_actions |-> "manual_review",
     total_updates |-> 0]

\* summary['total_updates'] = len(updates)
SetTotalUpdates_SetDefault(analysis, n) ==
    IF "total_updates" \in analysis.keys THEN analysis
    ELSE [analysis EXCEPT !.keys = @ \cup {"total_updates"}, !.total_updates = n]

SetTotalUpdates(analysis, n) ==
    [analysis EXCEPT !.keys = @ \cup {"total_updates"}, !.total_updates = n]

\* What one call of the model yields: generate_content raises, or
\* response.text is the given tokens (empty text: no token).
ModelRaises == [raises |-> TRUE, text |-> <<>>]
ModelText(t) == [raises |-> FALSE, text |-> t]

JsonFenced(d) == <<"fence", "json", "ws", d, "ws", "fence">>
PlainFenced(d) == <<"fence", "ws", d, "ws", "fence">>

\* The body of the try block of one attempt (lines 30-38).
AttemptResult(out) ==
    LET parsed == parse_analysis_response(out.text) IN
    CASE out.raises -> [kind |-> "raised", analysis |-> NoSummary]
      [] out.text = <<>> -> [kind |-> "empty", analysis |-> NoSummary]
      [] parsed.raises # "none" -> [kind |-> "rejected", analysis |-> NoSummary]
      [] OTHER -> [kind |-> parsed.analysis.path, analysis |-> parsed.analysis]

\* if not updates: return the canned summary, without calling the analyzer
GenerateSummaryEmpty_NoShortcut ==
    /\ pc = "summarize"
    /\ recent_updates = <<>>
    /\ updates_text' = format_updates_for_analysis(recent_updates)
    /\ attempt' = 0
    /\ pc' = "analyze"
    /\ UNCHANGED <<proc, sources, srcIdx, all_updates, collectLog, days, recent_updates,
                   analysisLog, lastResponse, summary, sender, slack, notion,
                   sleeps, run>>

GenerateSummaryEmpty ==
    /\ pc = "summarize"
    /\ recent_updates = <<>>
    /\ summary' = CannedSummary
    /\ pc' = "notify"
    /\ UNCHANGED <<proc, sources, srcIdx, all_updates, collectLog, days, recent_updates,
                   updates_text, attempt, analysisLog, lastResponse, sender, slack,
                   notion, sleeps, run>>

\* generate_summary up to the first model call of analyze_updates
GenerateSummaryStart ==
    /\ pc = "summarize"
    /\ recent_updates # <<>>
    /\ updates_text' = format_updates_for_analysis(recent_updates)
    /\ attempt' = 0
    /\ pc' = "analyze"
    /\ UNCHANGED <<proc, sources, srcIdx, all_updates, collectLog, days, recent_updates,
                   analysisLog, lastResponse, summary, sender, slack, notion,
                   sleeps, run>>

\* A retry loop that waits one second after every failed attempt, the
\* exponent forgotten.
AttemptStep_FixedDelay(out) ==
    LET r == AttemptResult(out) IN
    /\ analysisLog' = Append(analysisLog, r.kind)
    /\ lastResponse' = out.text
    /\ IF r.kind \in {"parsed", "partial"}
          THEN /\ summary' = SetTotalUpdates(r.analysis, Len(recent_updates))
               /\ pc' = "notify"
               /\ UNCHANGED <<attempt, sleeps, run>>
          ELSE IF attempt < AnalyzerRetryCount - 1
          THEN /\ sleeps' = Append(sleeps, [by |-> "analyzer", secs |-> 1])
               /\ attempt' = attempt + 1
               /\ UNCHANGED <<summary, pc, run>>
          ELSE /\ summary' = SetTotalUpdates(get_fallback_analysis(updates_text),
                                             Len(recent_updates))
               /\ pc' = "notify"
               /\ UNCHANGED <<attempt, sleeps, run>>

\* One iteration of the retry loop of analyze_updates; on a return, the
\* rest of generate_summary.
AttemptStep(out) ==
    LET r == AttemptResult(out) IN
    /\ analysisLog' = Append(analysisLog, r.kind)
    /\ lastResponse' = out.text
    /\ IF r.kind \in {"parsed", "partial"}
          THEN /\ summary' = SetTotalUpdates(r.analysis, Len(recent_updates))
               /\ pc' = "notify"
               /\ UNCHANGED <<attempt, sleeps, run>>
          ELSE IF attempt < AnalyzerRetryCount - 1
          THEN /\ sleeps' = Append(sleeps, [by |-> "analyzer", secs |-> Pow2(attempt)])
               /\ attempt' = attempt + 1
               /\ UNCHANGED <<summary, pc, run>>
          ELSE /\ summary' = SetTotalUpdates(get_fallback_analysis(updates_text),
                                             Len(recent_updates))
               /\ pc' = "notify"
               /\ UNCHANGED <<attempt, sleeps, run>>

AnalyzeAttempt(R) ==
    /\ pc = "analyze"
    /\ \E out \in R : AttemptStep(out)
    /\ UNCHANGED <<proc, sources, srcIdx, all_updates, collectLog, days, recent_updates,
                   updates_text, sender, slack, notion>>

(***************************************************************************)
(* send_notifications, SlackNotifier.send_message and                      *)
(* NotionUpdater.update_page.  One action per POST attempt; the outcome of *)
(* a POST is the environment: "200", "500" (any other status) or           *)
(* "exception" (session.post raises).                                      *)
(***************************************************************************)
PostOutcomes == {"200", "500", "exception"}

NoSender == [who |-> "none", context |-> "none", retry_count |-> 0, attempt |-> 0]
NoCalls == [calls |-> 0, posts |-> 0, log |-> <<>>, result |-> "none"]
\* The call has returned; its arguments stay on record.
EndSender(snd) == [snd EXCEPT !.who = "none"]
StartSender(who, context, retry_count) ==
    [who |-> who, context |-> context, retry_count |-> retry_count, attempt |-> 0]

\* _format_slack_message: categories.get(...) needs a dict, and
\* len(categories[key]) a sized value, for every truthy category.
SlackFormatRaises(s) ==
    IF "categories" \notin s.keys THEN FALSE
    ELSE \/ s.categories.kind # "dict"
         \/ \E k \in CatKeys : s.categories.vals[k] = "number"

\* The notifier's history after one POST attempt with outcome o: True at
\* the first 200, False once the loop is exhausted.
AfterAttempt_TrueAtEnd(hist, snd, o) ==
    [hist EXCEPT !.posts = @ + 1,
                 !.log = Append(@, o),
                 !.result = CASE o = "200" -> "True"
                              [] snd.attempt >= snd.retry_count - 1 -> "True"
                              [] OTHER -> "none"]

AfterAttempt(hist, snd, o) ==
    [hist EXCEPT !.posts = @ + 1,
                 !.log = Append(@, o),
                 !.result = CASE o = "200" -> "True"
                              [] snd.attempt >= snd.retry_count - 1 -> "False"
                              [] OTHER -> "none"]

\* The except clause of an attempt: time.sleep(2 ** attempt) unless it
\* was the last attempt.  A non-200 response takes the else branch of the
\* try block, which does not sleep.
BackoffAfter(by, snd, o) ==
    IF o = "exception" /\ snd.attempt < snd.retry_count - 1
      THEN <<[by |-> by, secs |-> Pow2(snd.attempt)]>>
      ELSE <<>>

\* send_notifications up to the first POST of send_message
NotifyStart ==
    /\ pc = "notify"
    /\ IF SlackFormatRaises(summary)
          THEN \* except Exception: logged; run_weekly_analysis goes on
               /\ pc' = "done"
               /\ run' = [run EXCEPT !.outcome = "returned",
                                     !.notify_error = TRUE]
               /\ UNCHANGED <<sender, slack>>
          ELSE /\ pc' = "slack"
               /\ sender' = StartSender("slack", "summary", NotifierRetryCount)
               /\ slack' = [slack EXCEPT !.calls = @ + 1]
               /\ UNCHANGED run
    /\ UNCHANGED notion

SendNotifications ==
    /\ NotifyStart
    /\ UNCHANGED <<proc, sources, srcIdx, all_updates, collectLog, days, recent_updates,
                   updates_text, attempt, analysisLog, lastResponse, summary, sleeps>>

\* One POST attempt of send_message and, when the call returns, what its
\* caller does next.
SlackStep(o) ==
    LET after == AfterAttempt(slack, sender, o) IN
    /\ slack' = after
    /\ sleeps' = sleeps \o BackoffAfter("slack", sender, o)
    /\ CASE after.result = "none" ->
              /\ sender' = [sender EXCEPT !.attempt = @ + 1]
              /\ UNCHANGED <<pc, notion, run>>
         [] sender.context = "summary" ->
              \* _format_notion_content, then update_page up to its first POST
              /\ sender' = StartSender("notion", "summary", NotifierRetryCount)
              /\ notion' = [notion EXCEPT !.calls = @ + 1]
              /\ pc' = "notion"
              /\ UNCHANGED run
         [] sender.context = "alert" ->
              /\ sender' = EndSender(sender)
              /\ pc' = "done"
              /\ run' = [run EXCEPT !.outcome = "returned"]
              /\ UNCHANGED notion
         [] OTHER ->
              /\ sender' = EndSender(sender)
              /\ pc' = "returned"
              /\ UNCHANGED <<notion, run>>

SlackAttempt(O) ==
    /\ pc = "slack"
    /\ \E o \in O : SlackStep(o)
    /\ UNCHANGED <<proc, sources, srcIdx, all_updates, collectLog, days, recent_updates,
                   updates_text, attempt, analysisLog, lastResponse, summary>>

\* One POST attempt of update_page; send_notifications and the run end
\* when it returns.
NotionStep(o) ==
    LET after == AfterAttempt(notion, sender, o) IN
    /\ notion' = after
    /\ sleeps' = sleeps \o BackoffAfter("notion", sender, o)
    /\ IF after.result = "none"
          THEN /\ sender' = [sender EXCEPT !.attempt = @ + 1]
               /\ UNCHANGED <<pc, run>>
          ELSE /\ sender' = EndSender(sender)
               /\ pc' = "done"
               /\ run' = [run EXCEPT !.outcome = "returned"]

NotionAttempt(O) ==
    /\ pc = "notion"
    /\ \E o \in O : NotionStep(o)
    /\ UNCHANGED <<proc, sources, srcIdx, all_updates, collectLog, days, recent_updates,
                   updates_text, attempt, analysisLog, lastResponse, summary, slack>>

(***************************************************************************)
(* run_weekly_analysis: the try block around the four stages and its       *)
(* except clause.                                                          *)
(***************************************************************************)
NoRun == [raised |-> "none", alerts |-> 0, notify_error |-> FALSE,
          alert_error |-> FALSE, outcome |-> "running"]

\* An exception that a stage does not handle itself reaches the except
\* clause of run_weekly_analysis, which sends the error alert.
\* send_notifications handles every Exception itself.
StageAt(p) == IF p = "analyze" THEN "summarize" ELSE p
StagePositions == {"collect", "filter", "summarize", "analyze"}

HandleStageError_NoHandler(stage) ==
    /\ run' = [run EXCEPT !.raised = stage, !.outcome = "raised"]
    /\ UNCHANGED <<sender, slack>>
    /\ pc' = "done"

HandleStageError(stage) ==
    /\ run' = [run EXCEPT !.raised = stage, !.alerts = @ + 1]
    /\ sender' = StartSender("slack", "alert", NotifierRetryCount)
    /\ slack' = [slack EXCEPT !.calls = @ + 1]
    /\ pc' = "slack"

StageRaises ==
    /\ pc \in StagePositions
    /\ HandleStageError(StageAt(pc))
    /\ UNCHANGED <<proc, sources, srcIdx, all_updates, collectLog, days, recent_updates,
                   updates_text, attempt, analysisLog, lastResponse, summary,
                   notion, sleeps>>

\* An except clause that lets the alert's exception out of the run.
SwallowAlertError_Reraise ==
    run' = [run EXCEPT !.alert_error = TRUE, !.outcome = "raised"]

\* try: send_message(error_msg) / except: pass -- whatever the alert
\* raises is swallowed.
SwallowAlertError ==
    run' = [run EXCEPT !.alert_error = TRUE, !.outcome = "returned"]

AlertRaises ==
    /\ pc = "slack"
    /\ sender.context = "alert"
    /\ SwallowAlertError
    /\ sender' = EndSender(sender)
    /\ pc' = "done"
    /\ UNCHANGED <<proc, sources, srcIdx, all_updates, collectLog, days, recent_updates,
                   updates_text, attempt, analysisLog, lastResponse, summary,
                   slack, notion, sleeps>>

(***************************************************************************)
(* main: the environment check, the agent, the weekly job, the --run-now   *)
(* call and the polling loop.  proc.pc is the position of main: "main" at  *)
(* its first statement, "run_now" inside the call of line 261, "poll"      *)
(* before schedule.run_pending(), "job" inside the job that run_pending    *)
(* started, "sleep" before time.sleep(60), "exited" after a return and     *)
(* "crashed" after an exception has left main.  The constructors of the    *)
(* agent make no request and are taken to return.                          *)
(***************************************************************************)
NoProc == [pc |-> "none", env_ok |-> TRUE, run_now |-> FALSE, agent |-> FALSE,
           scheduled |-> FALSE, polls |-> 0, triggers |-> 0, runs |-> 0,
           slept |-> 0]

\* A call of agent.run_weekly_analysis: a new run of the pipeline over the
\* sources loaded by the constructor.
StartRun ==
    /\ pc' = "collect"
    /\ srcIdx' = 1
    /\ all_updates' = <<>>
    /\ collectLog' = <<>>
    /\ days' = DefaultDays
    /\ recent_updates' = <<>>
    /\ updates_text' = <<>>
    /\ attempt' = 0
    /\ analysisLog' = <<>>
    /\ lastResponse' = <<>>
    /\ summary' = NoSummary
    /\ sender' = NoSender
    /\ slack' = NoCalls
    /\ notion' = NoCalls
    /\ sleeps' = <<>>
    /\ run' = NoRun
    /\ UNCHANGED sources

NoRunStarted ==
    UNCHANGED <<pc, sources, srcIdx, all_updates, collectLog, days, recent_updates,
                updates_text, attempt, analysisLog, lastResponse, summary, sender,
                slack, notion, sleeps, run>>

\* main up to the loop: lines 241-264
MainStart ==
    /\ proc.pc = "main"
    /\ IF ~proc.env_ok
          THEN /\ proc' = [proc EXCEPT !.pc = "exited"]
               /\ NoRunStarted
          ELSE IF proc.run_now
          THEN /\ proc' = [proc EXCEPT !.agent = TRUE, !.scheduled = TRUE,
                                       !.pc = "run_now", !.runs = @ + 1]
               /\ StartRun
          ELSE /\ proc' = [proc EXCEPT !.agent = TRUE, !.scheduled = TRUE,
                                       !.pc = "poll"]
               /\ NoRunStarted

\* schedule.run_pending(): the weekly job runs if its time has come since
\* the last poll, which is for the clock to say.
RunPending ==
    /\ proc.pc = "poll"
    /\ proc.polls < MaxPolls
    /\ \E due \in BOOLEAN :
          IF due
            THEN /\ proc' = [proc EXCEPT !.polls = @ + 1, !.triggers = @ + 1,
                                         !.runs = @ + 1, !.pc = "job"]
                 /\ StartRun
            ELSE /\ proc' = [proc EXCEPT !.polls = @ + 1, !.pc = "sleep"]
                 /\ NoRunStarted

\* Where main goes when run_weekly_analysis is over: an exception that
\* leaves the call leaves run_pending and main too, nothing in main
\* catches it; the --run-now call is followed by return, the job by the
\* sleep of the loop.
AfterRun_KeepPolling(mode, outcome) ==
    IF outcome = "raised" THEN "crashed" ELSE "sleep"

AfterRun(mode, outcome) ==
    IF outcome = "raised" THEN "crashed"
    ELSE IF mode = "run_now" THEN "exited"
    ELSE "sleep"

RunReturns ==
    /\ proc.pc \in {"run_now", "job"}
    /\ pc = "done"
    /\ proc' = [proc EXCEPT !.pc = AfterRun(proc.pc, run.outcome)]
    /\ NoRunStarted

\* time.sleep(60), line 269
MainSleep ==
    /\ proc.pc = "sleep"
    /\ proc' = [proc EXCEPT !.slept = @ + PollSeconds, !.pc = "poll"]
    /\ NoRunStarted

(***************************************************************************)
(* The run: run_weekly_analysis from its first statement.                  *)
(***************************************************************************)
Recent == [kind |-> "naive", age |-> 1]
Old == [kind |-> "naive", age |-> 8]

RunSources == [name : {"Acme"}, type : {"website", "twitter", "forum"}]
RunUpdates == {Untagged(Recent, PlainText, PlainText),
               Untagged(Old, PlainText, PlainText)}
RunResponses ==
    {ModelRaises, ModelText(<<>>), ModelText(<<"prose">>),
     ModelText(<<"doc_good">>), ModelText(<<"doc_full">>),
     ModelText(<<"doc_catnum">>)}
RunPosts == {"200", "500"}

\* The state at position p of a run whose state so far is drawn from the
\* given sets; everything else is as at the start of a run.
InitRunAt(p, srcs, alls, recents, senders) ==
    /\ pc = p
    /\ sources \in srcs
    /\ srcIdx = 1
    /\ all_updates \in alls
    /\ collectLog = <<>>
    /\ days = DefaultDays
    /\ recent_updates \in recents
    /\ updates_text = <<>>
    /\ attempt = 0
    /\ analysisLog = <<>>
    /\ lastResponse = <<>>
    /\ summary = NoSummary
    /\ sender \in senders
    /\ slack = [NoCalls EXCEPT !.calls = IF sender.who = "slack" THEN 1 ELSE 0]
    /\ notion = NoCalls
    /\ sleeps = <<>>
    /\ run = NoRun

\* The same, outside of main.
InitAt(p, srcs, alls, recents, senders) ==
    /\ InitRunAt(p, srcs, alls, recents, senders)
    /\ proc = NoProc

Init == InitAt("collect", SeqsUpTo(RunSources, MaxSources), {<<>>}, {<<>>}, {NoSender})

Next ==
    \/ CollectSource(RunUpdates)
    \/ CollectReturn
    \/ FilterRecent(DefaultDays)
    \/ GenerateSummaryEmpty
    \/ GenerateSummaryStart
    \/ AnalyzeAttempt(RunResponses)
    \/ SendNotifications
    \/ SlackAttempt(RunPosts)
    \/ NotionAttempt(RunPosts)
    \/ StageRaises
    \/ AlertRaises

Spec == Init /\ [][Next]_vars

(***************************************************************************)
(* collect_updates alone, over every configuration of sources.             *)
(***************************************************************************)
CollectUpdates == {Untagged(Recent, PlainText, PlainText),
                   Untagged(Old, SourceText, PlainText)}

InitCollect == InitAt("collect", SeqsUpTo(Source, MaxSources), {<<>>}, {<<>>}, {NoSender})

NextCollect ==
    \/ CollectSource(CollectUpdates)
    \/ CollectReturn

SpecCollect == InitCollect /\ [][NextCollect]_vars

(***************************************************************************)
(* filter_recent_updates alone, over update lists with every kind of date. *)
(***************************************************************************)
Windows == {3, 7}
Tagged(date, title, content) ==
    [Untagged(date, title, content) EXCEPT !.source = "Acme",
                                           !.source_type = "website"]
FilterUpdates == {Tagged(d, PlainText, PlainText) : d \in DateValue}

InitFilter ==
    InitAt("filter", {<<>>}, SeqsUpTo(FilterUpdates, MaxUpdates), {<<>>}, {NoSender})

NextFilter == \E window \in Windows : FilterRecent(window)

SpecFilter == InitFilter /\ [][NextFilter]_vars

(***************************************************************************)
(* generate_summary alone, over update lists with every kind of text and   *)
(* over every kind of model response.                                      *)
(***************************************************************************)
AnalyzeUpdates == {Tagged(Recent, t, c) : t \in TextValue, c \in TextValue}

Wrappings(d) == {<<d>>, <<"ws", d, "ws">>, JsonFenced(d), PlainFenced(d)}
\* n short lines and then a line that is long and mentions an update.
ReportAfter(n) ==
    [i \in 1..(2 * n) |-> IF i % 2 = 1 THEN "prose" ELSE "nl"] \o <<"report">>
ProseResponses ==
    {<<"ws">>, <<"prose">>, <<"prose", "ws", "report">>, <<"prose", "ws", "mention">>,
     <<"ramble", "nl", "mention">>, <<"pad", "mention">>, <<"essay">>,
     ReportAfter(1), ReportAfter(SalvageLines - 1), ReportAfter(SalvageLines)}
AllResponses ==
    {ModelRaises, ModelText(<<>>)}
        \cup {ModelText(t) : t \in ProseResponses}
        \cup {ModelText(t) : t \in UNION {Wrappings(d) : d \in DocNames}}

InitAnalyze ==
    InitAt("summarize", {<<>>}, {<<>>}, SeqsUpTo(AnalyzeUpdates, MaxUpdates), {NoSender})

NextAnalyze ==
    \/ GenerateSummaryEmpty
    \/ GenerateSummaryStart
    \/ AnalyzeAttempt(AllResponses)

SpecAnalyze == InitAnalyze /\ [][NextAnalyze]_vars

(***************************************************************************)
(* SlackNotifier.send_message alone, for every retry_count from 1 up.      *)
(***************************************************************************)
InitSlack ==
    InitAt("slack", {<<>>}, {<<>>}, {<<>>},
           {StartSender("slack", "direct", n) : n \in 1..MaxRetry})

NextSlack == SlackAttempt(PostOutcomes)

SpecSlack == InitSlack /\ [][NextSlack]_vars

(***************************************************************************)
(* main from its first statement: with and without the environment         *)
(* variables, with and without --run-now, with the whole run inside.       *)
(***************************************************************************)
MainSources == {<<>>, <<[name |-> "Acme", type |-> "website"]>>}
MainUpdates == {Untagged(Recent, PlainText, PlainText)}
MainResponses == {ModelRaises, ModelText(<<"doc_good">>)}

InitMain ==
    /\ InitRunAt("idle", MainSources, {<<>>}, {<<>>}, {NoSender})
    /\ \E e \in BOOLEAN, f \in BOOLEAN :
          proc = [NoProc EXCEPT !.pc = "main", !.env_ok = e, !.run_now = f]

NextMain ==
    \/ MainStart
    \/ RunPending
    \/ RunReturns
    \/ MainSleep
    \/ CollectSource(MainUpdates)
    \/ CollectReturn
    \/ FilterRecent(DefaultDays)
    \/ GenerateSummaryEmpty
    \/ GenerateSummaryStart
    \/ AnalyzeAttempt(MainResponses)
    \/ SendNotifications
    \/ SlackAttempt(RunPosts)
    \/ NotionAttempt(RunPosts)
    \/ StageRaises
    \/ AlertRaises

\* main is one thread: whenever it has a next step, it takes it.
SpecMain == InitMain /\ [][NextMain]_vars /\ WF_vars(NextMain)

(***************************************************************************)
(* The website and the feed collector, entry by entry, and the filter over *)
(* what they produced.                                                     *)
(***************************************************************************)
InitScrape == InitAt("scrape", {<<>>}, {<<>>}, {<<>>}, {NoSender})

NextScrape ==
    \/ ScrapeContainer
    \/ ParseEntry
    \/ ScrapeReturn
    \/ FilterRecent(DefaultDays)

SpecScrape == InitScrape /\ [][NextScrape]_vars

(***************************************************************************)
(* Properties.                                                             *)
(***************************************************************************)
Last(q) == q[Len(q)]

\* generate_summary has returned its summary to run_weekly_analysis.
SummaryReturned ==
    \/ pc \in {"notify", "notion"}
    \/ pc = "slack" /\ sender.context = "summary"
    \/ pc = "done" /\ run.raised = "none"

HasThreeCategoryKeys(s) ==
    /\ "categories" \in s.keys
    /\ s.categories.kind = "dict"
    /\ \A k \in CatKeys : s.categories.vals[k] # "absent"

\* C1: whatever the model answers, the summary that generate_summary
\* returns has a 'categories' mapping with the keys new_features,
\* pricing_changes and messaging_updates.
C1_CategoriesAlwaysHaveThreeKeys ==
    pc = "notify" => HasThreeCategoryKeys(summary)

DateParses(date) == date.kind \in {"naive", "aware"}

\* C2: filter_recent_updates keeps an update if and only if its date does
\* not parse, or parses (with or without an offset) and is later than now
\* minus the window.
C2_FilterKeepsUnparseableOrRecent ==
    pc = "summarize" =>
        recent_updates =
            SelectSeq(all_updates,
                      LAMBDA u : ~DateParses(u.date) \/ u.date.age < days)

AllAttemptsRaised ==
    /\ Len(analysisLog) = AnalyzerRetryCount
    /\ \A i \in 1..Len(analysisLog) : analysisLog[i] = "raised"

SourceLineCount == Cardinality({i \in 1..Len(updates_text) : updates_text[i] = "Source:"})

\* C3: when the model call raises on every attempt, analyze_updates
\* returns the fallback summary: a manual-review notice in key_insights, a
\* summary text citing the number of input lines that start with
\* 'Source:', three empty category lists and threat_level 'medium'.
C3_FallbackWhenEveryAttemptRaises ==
    AllAttemptsRaised =>
        /\ pc = "notify"
        /\ summary.key_insights = "manual_review"
        /\ summary.summary = [form |-> "collected_n_manual_review",
                              count |-> SourceLineCount]
        /\ summary.categories = EmptyCats
        /\ "threat_level" \in summary.keys
        /\ summary.threat_level = "medium"

C3_Witness ==
    /\ AllAttemptsRaised
    /\ Len(recent_updates) = 2
    /\ summary.summary.count = 4

\* C4: send_message makes at most retry_count POST attempts, stops at the
\* first 200, and returns True if and only if some attempt returned 200,
\* False otherwise; it returns once the attempts are over, whatever they
\* did (a status other than 200, or an exception of the POST).
C4_SendMessageReturnsWhetherPosted ==
    LET log == slack.log
        got200 == \E i \in 1..Len(log) : log[i] = "200"
    IN /\ slack.posts = Len(log)
       /\ Len(log) <= sender.retry_count
       /\ \A i \in 1..(Len(log) - 1) : log[i] # "200"
       /\ slack.result \in {"none", "True", "False"}
       /\ (slack.result = "True") = got200
       /\ (slack.result = "False") = (~got200 /\ Len(log) = sender.retry_count)
       /\ (pc = "returned") = (slack.result # "none")

C4_Witness ==
    /\ pc = "returned"
    /\ sender.retry_count = NotifierRetryCount
    /\ slack.log = <<"500", "500", "500">>
    /\ slack.result = "False"

\* C5: with an empty filtered list, generate_summary returns the canned
\* summary (total_updates 0, three empty category lists) and the model is
\* never called in the run.
C5_EmptyListGivesCannedSummary ==
    (SummaryReturned /\ recent_updates = <<>>) =>
        /\ summary.summary.form = "no_updates"
        /\ "total_updates" \in summary.keys
        /\ summary.total_updates = 0
        /\ HasThreeCategoryKeys(summary)
        /\ \A k \in CatKeys : summary.categories.vals[k] = "empty"
        /\ analysisLog = <<>>

C5_Witness ==
    /\ pc = "done"
    /\ run.raised = "none"
    /\ all_updates # <<>>
    /\ recent_updates = <<>>
    /\ notion.result = "True"

\* C6: the summary handed to the notifiers has total_updates equal to the
\* number of updates that passed the filter, on every summarizer path.
C6_TotalUpdatesIsFilteredCount ==
    SummaryReturned =>
        /\ "total_updates" \in summary.keys
        /\ summary.total_updates = Len(recent_updates)

C6_Witness ==
    /\ pc = "notion"
    /\ lastResponse = <<"doc_full">>
    /\ summary.path = "parsed"
    /\ Len(recent_updates) = 2
    /\ slack.result = "True"

\* C7: a document with the required keys, wrapped in a code fence with or
\* without the 'json' tag, is parsed to the same result as the document
\* given unwrapped.
C7_FencedParsesLikeUnwrapped ==
    \A d \in DocNames :
        (/\ RequiredSet \subseteq DocTable[d].keys
         /\ analysisLog # <<>>
         /\ lastResponse \in {JsonFenced(d), PlainFenced(d)})
        => LET direct == AttemptResult(ModelText(<<d>>)) IN
           /\ Last(analysisLog) = direct.kind
           /\ direct.kind \in {"parsed", "partial"} =>
                 summary = SetTotalUpdates(direct.analysis, Len(recent_updates))

\* C8: in a run that reaches send_notifications, the chat post and the
\* document-page creation are both attempted, whatever the other did.
C8_BothNotifiersAttempted ==
    (pc = "done" /\ run.raised = "none") =>
        /\ slack.calls = 1 /\ slack.posts >= 1
        /\ notion.calls = 1 /\ notion.posts >= 1

\* C9: run_weekly_analysis never lets an exception out: a stage that
\* raises leads to exactly one error alert through the chat notifier,
\* what the alert raises is swallowed, and a run without a raising stage
\* sends no alert.
C9_RunNeverRaises ==
    /\ run.outcome \in {"running", "returned"}
    /\ (pc = "done") = (run.outcome = "returned")
    /\ run.alerts = (IF run.raised = "none" THEN 0 ELSE 1)
    /\ run.raised # "none" =>
          /\ slack.calls = 1
          /\ notion.calls = 0
          /\ sender.context = "alert"
    /\ run.raised = "none" => sender.context # "alert" /\ ~run.alert_error

C9_Witness ==
    /\ pc = "done"
    /\ run.raised = "filter"
    /\ run.alert_error
    /\ run.outcome = "returned"

\* What source i contributes, by the log of the pass.
Contribution(i) ==
    LET e == collectLog[i] IN
    IF e.outcome = "returned" /\ sources[i].type \in KnownTypes
      THEN [j \in 1..Len(e.updates) |->
              [date |-> e.updates[j].date, title |-> e.updates[j].title,
               content |-> e.updates[j].content,
               source |-> sources[i].name, source_type |-> sources[i].type]]
      ELSE <<>>

\* C10: collect_updates visits every source once, in order; a source
\* that raises or has an unknown type contributes nothing and does not
\* stop the pass; the result is the concatenation, in source order, of
\* the updates returned for the others, tagged with the source's name and
\* type.
C10_CollectVisitsEverySource ==
    /\ Len(collectLog) = srcIdx - 1
    /\ Len(collectLog) <= Len(sources)
    /\ \A i \in 1..Len(collectLog) :
          /\ collectLog[i].index = i
          /\ (collectLog[i].outcome = "unknown") = (sources[i].type \notin KnownTypes)
    /\ all_updates = Flatten([i \in 1..Len(collectLog) |-> Contribution(i)])
    /\ pc = "filter" => Len(collectLog) = Len(sources)

C10_Witness ==
    /\ pc = "filter"
    /\ Len(sources) = 2
    /\ collectLog[1].outcome = "raised"
    /\ sources[2].type = "rss"
    /\ Len(all_updates) = 1
    /\ all_updates[1].source = sources[2].name

\* The sleeps of one caller, in order.
SleepsBy(who) == SelectSeq(sleeps, LAMBDA s : s.by = who)

AttemptFailed(kind) == kind \in {"raised", "empty", "rejected"}
FailedAttempts == Cardinality({i \in 1..Len(analysisLog) : AttemptFailed(analysisLog[i])})

\* C11: analyze_updates calls the model at most three times; a failed
\* attempt (the call raises, the text is empty, or a required key is
\* missing) numbered 0 or 1 is followed by a sleep of 1 or 2 seconds and
\* the next attempt; the first attempt that succeeds returns at once; the
\* third failure returns the fallback with no sleep after it.
C11_ThreeAttemptsWithBackoff ==
    LET n == Len(analysisLog)
        slept == SleepsBy("analyzer")
        returned == n > 0 /\ (~AttemptFailed(Last(analysisLog)) \/ n = 3)
    IN /\ n <= 3
       /\ \A i \in 1..(n - 1) : AttemptFailed(analysisLog[i])
       /\ slept = [k \in 1..(IF FailedAttempts < 2 THEN FailedAttempts ELSE 2) |->
                     [by |-> "analyzer", secs |-> IF k = 1 THEN 1 ELSE 2]]
       /\ pc = "analyze" => ~returned /\ attempt = n
       /\ n > 0 => (pc = "notify") = returned
       /\ (n = 3 /\ AttemptFailed(Last(analysisLog))) => summary.path = "fallback"
       /\ (n > 0 /\ ~AttemptFailed(Last(analysisLog))) =>
              summary.path \in {"parsed", "partial"}

C11_Witness ==
    /\ pc = "notify"
    /\ analysisLog = <<"empty", "rejected", "raised">>
    /\ SleepsBy("analyzer") = <<[by |-> "analyzer", secs |-> 1],
                                [by |-> "analyzer", secs |-> 2]>>
    /\ summary.path = "fallback"

\* All required environment variables set, no --run-now.
SchedulingMode == proc.pc # "none" /\ proc.env_ok /\ ~proc.run_now

LoopNeverEnds == SchedulingMode => proc.pc \in {"main", "poll", "job", "sleep"}

\* One sleep of 60 seconds between a poll and the next, and one run
\* started per trigger.
OnePollPerMinute ==
    SchedulingMode =>
        /\ proc.runs = proc.triggers
        /\ proc.pc = "poll" => proc.slept = 60 * proc.polls
        /\ proc.pc \in {"job", "sleep"} => proc.slept = 60 * (proc.polls - 1)
        /\ proc.pc = "job" => pc # "idle"

\* C12: in scheduling mode the process never terminates on its own: after
\* any run, one with a raising stage or a raising alert included, main is
\* back in the loop, sleeps a minute and polls the scheduler again, and
\* every trigger starts a new run.
C12_SchedulingLoopNeverEnds ==
    /\ [](LoopNeverEnds /\ OnePollPerMinute)
    /\ (SchedulingMode /\ proc.pc \in {"job", "sleep"}) ~> (proc.pc = "poll")

C12_Witness ==
    /\ SchedulingMode
    /\ proc.pc = "poll"
    /\ proc.runs = 2
    /\ run.raised = "summarize"
    /\ run.alert_error

RunNowMode == proc.pc # "none" /\ proc.env_ok /\ proc.run_now
MissingEnvironment == proc.pc # "none" /\ ~proc.env_ok

RunNowRunsOnce ==
    RunNowMode =>
        /\ proc.pc \in {"main", "run_now", "exited"}
        /\ proc.polls = 0 /\ proc.slept = 0 /\ proc.triggers = 0
        /\ proc.runs = (IF proc.pc = "main" THEN 0 ELSE 1)
        /\ proc.pc = "exited" => pc = "done"

NoRunBeforeTrigger ==
    SchedulingMode =>
        /\ proc.runs = proc.triggers
        /\ proc.triggers = 0 => pc = "idle"

NothingWithoutEnvironment ==
    MissingEnvironment =>
        /\ proc.pc \in {"main", "exited"}
        /\ ~proc.agent /\ ~proc.scheduled
        /\ proc.runs = 0 /\ proc.polls = 0
        /\ pc = "idle"

\* C13: with --run-now and the environment complete, the pipeline runs
\* exactly once, at once, and main returns without polling the scheduler;
\* without the flag no run starts before the scheduler triggers one; with
\* a required environment variable missing, main returns without
\* constructing the agent or starting a run.
C13_RunNowRunsOnceAndReturns ==
    /\ [](RunNowRunsOnce /\ NoRunBeforeTrigger /\ NothingWithoutEnvironment)
    /\ (RunNowMode \/ MissingEnvironment) ~> (proc.pc = "exited")

C13_Witness ==
    /\ RunNowMode
    /\ proc.pc = "exited"
    /\ proc.runs = 1
    /\ proc.polls = 0
    /\ notion.result = "True"

ThreatLevels == {"low", "medium", "high"}

\* C14: every summary that generate_summary hands to the notifiers has a
\* threat_level, and its value is one of low, medium, high, on every path
\* (canned, parsed, salvaged, fallback).
C14_ThreatLevelIsLowMediumHigh ==
    SummaryReturned =>
        /\ "threat_level" \in summary.keys
        /\ summary.threat_level \in ThreatLevels

\* The sleeps that a backoff after every failed attempt but the last
\* would leave behind a log of POST outcomes.
BackoffEveryFailure(by, log, retry_count) ==
    LET failed == {i \in 1..Len(log) : log[i] # "200" /\ i < retry_count}
    IN [k \in 1..Cardinality(failed) |-> [by |-> by, secs |-> Pow2(k - 1)]]

\* C15: in send_message and update_page every failed attempt other than
\* the last (attempt k = 0, 1) is followed by a sleep of 2^k seconds
\* before the next attempt, whether the attempt failed by a status other
\* than 200 or by an exception.
C15_BackoffAfterEveryFailedAttempt ==
    /\ SleepsBy("slack") = BackoffEveryFailure("slack", slack.log, sender.retry_count)
    /\ SleepsBy("notion") = BackoffEveryFailure("notion", notion.log, NotifierRetryCount)

\* C16: during a collect_updates pass a pause of one second follows
\* every source that has been processed, one whose collection raised and
\* one of unknown type included.
C16_PauseAfterEverySource ==
    SleepsBy("collect") = [i \in 1..Len(collectLog) |-> [by |-> "collect", secs |-> 1]]

\* The last response was text, and not the text of one JSON document.
LastResponseNotJson ==
    /\ analysisLog # <<>>
    /\ lastResponse # <<>>
    /\ \A d \in DocNames : Strip(CleanResponse(lastResponse)) # <<d>>

\* The attempt returned the salvaged result, whose summary is the first
\* line among the first `limit` lines of the response that, stripped, is
\* longer than 50 characters and mentions an update or a competitor, cut
\* to 300 characters, or the placeholder if there is no such line.
SalvagedFromFirst(limit) ==
    LET lines == SplitLines(lastResponse)
        chars(i) == LineChars(Strip(lines[i]))
        Q(i) == i <= limit /\ chars(i) > 50 /\ LineMentions(Strip(lines[i]))
        s == summary.summary
    IN /\ Last(analysisLog) = "partial"
       /\ pc = "notify"
       /\ summary.path = "partial"
       /\ IF \E i \in 1..Len(lines) : Q(i)
            THEN /\ s.form = "salvaged"
                 /\ s.line \in 1..Len(lines)
                 /\ Q(s.line)
                 /\ \A j \in 1..(s.line - 1) : ~Q(j)
                 /\ s.chars = (IF chars(s.line) < 300 THEN chars(s.line) ELSE 300)
            ELSE s.form = "placeholder"
       /\ summary.categories = EmptyCats
       /\ summary.key_insights = "empty"
       /\ summary.recommended_actions = "empty"
       /\ summary.threat_level = "medium"

\* C17 as stated: a response that is text but not JSON makes
\* analyze_updates return on that attempt, and the summary is the first
\* line of the whole text that is longer than 50 characters and mentions
\* an update or a competitor, cut to 300 characters (the placeholder if
\* none), with empty categories, key_insights and recommended_actions and
\* threat_level 'medium'.
C17_SalvagedFromAnyLine ==
    LastResponseNotJson => SalvagedFromFirst(Len(lastResponse) + 1)

\* C17, amended: the same, the line being looked for among the first 10
\* lines of the text only.
C17_SalvagedFromFirstTenLines ==
    LastResponseNotJson => SalvagedFromFirst(10)

C17_Witness ==
    /\ analysisLog = <<"raised", "partial">>
    /\ lastResponse = ReportAfter(9)
    /\ summary.summary.form = "salvaged"
    /\ summary.summary.line = 10
    /\ pc = "notify"

\* C18: every update of the website collector and of the feed collector
\* carries a date that the filter's parser accepts, whichever branch
\* produced it, so that the filter decides by age for each of them and
\* never by its except branch.
C18_CollectorDatesParse ==
    /\ \A i \in 1..Len(all_updates) :
          FromIsoformat(all_updates[i].date).raises = "none"
    /\ pc = "summarize" =>
          recent_updates = SelectSeq(all_updates, LAMBDA u : u.date.age < days)

\* C19: when a run ends in the all-attempts-failed fallback, the count of
\* updates cited in the fallback's summary text and key_insights equals
\* the total_updates of the same summary, whatever the titles and
\* contents are, several lines or the text 'Source:' included.
C19_FallbackCountIsTotalUpdates ==
    (SummaryReturned /\ summary.path = "fallback") =>
        summary.summary.count = summary.total_updates

====
